---- MODULE Spec2Model ----
(***************************************************************************)
(* A model of crypto/context.cc (private_join_and_compute::Context).      *)
(*                                                                         *)
(* A Context owns one digest state (evp_md_ctx_) and one keyed-hash state  *)
(* (hmac_ctx_) that every call reuses.  Each call is modelled step by      *)
(* step: every OpenSSL call of a method body is one action, so that the    *)
(* interleavings of two threads on one Context are states of the model.    *)
(*                                                                         *)
(* TLC's integers are 32 bits wide, so the 512-bit SHA-512 block is scaled *)
(* to ScaledBlockBits bits in the state machine; a byte keeps its 8 bits   *)
(* and the iteration limit its value 255.  The iteration-count arithmetic  *)
(* of RandomOracle is also checked at the real width (Sha512Bits) under    *)
(* SpecIter, where only the bit length of max_value is state.              *)
(***************************************************************************)
EXTENDS Integers, Sequences, FiniteSets, TLC

\* ---------------------------------------------------------------- constants

\* context.cc:90 "+ 512", :91 "/ 512", :95 "* 512", :98 Lshift(512), :109
Sha512Bits == 512
\* context.cc:92 CHECK(iter_count < 255)
MaxIter == 255
\* context.cc:108 CHECK_GE(key.size() * 8, 80)
MinKeyBits == 80
\* context.cc:108 "key.size() * 8"
BitsPerByte == 8
\* float: 24 bits of significand (static_cast<float>, context.cc:91)
FloatMantissaBits == 24

\* The width that stands for 512 in the state machine (see the header): the
\* digest is this wide, and RandomOracle and PRF use it where the code has 512.
ScaledBlockBits == 8
\* How far past an edge (the iteration limit, the end of float's exact
\* integers) SpecIter draws the bit length of max_value.
EdgeWindow == 600
\* The calls each of two concurrent threads makes.
MaxConcCalls == 1

\* ------------------------------------------------------- BigNum (big_num.cc)

RECURSIVE Pow2(_)
Pow2(n) == IF n <= 0 THEN 1 ELSE 2 * Pow2(n - 1)

RECURSIVE BitLength(_)
BitLength(n) == IF n <= 0 THEN 0 ELSE 1 + BitLength(n \div 2)

Lshift(a, n) == a * Pow2(n)

Rshift(a, n) == a \div Pow2(n)

\* BN_nnmod: the non-negative remainder; the caller checks m # 0.
Mod(a, m) == a % m

GetLastNBits(a, n) == a % Pow2(n)

RECURSIVE Gcd(_, _)
Gcd(a, b) == IF b = 0 THEN a ELSE Gcd(b, a % b)

\* BN_bn2bin: the minimal big-endian bytes; zero is the empty string.
RECURSIVE ToBytes(_)
ToBytes(n) == IF n <= 0 THEN << >> ELSE Append(ToBytes(n \div 256), n % 256)

\* BN_bin2bn: the big-endian value of a byte string.
RECURSIVE FromBytes(_)
FromBytes(s) ==
  IF s = << >> THEN 0
  ELSE 256 * FromBytes(SubSeq(s, 1, Len(s) - 1)) + s[Len(s)]

\* A digest as OpenSSL hands it back: a fixed number of bytes, leading zero
\* bytes kept.
RECURSIVE FixedBytes(_, _)
FixedBytes(n, len) ==
  IF len = 0 THEN << >> ELSE Append(FixedBytes(n \div 256, len - 1), n % 256)

\* ------------------------------------------------------------- float, ceil

\* static_cast<float>(int): round to nearest, ties to even, 24-bit significand.
ToFloat(n) ==
  IF n < Pow2(FloatMantissaBits) THEN n
  ELSE LET ulp  == Pow2(BitLength(n) - FloatMantissaBits)
           q    == n \div ulp
           r    == n % ulp
           half == ulp \div 2
           up   == r > half \/ (r = half /\ q % 2 = 1)
       IN  (IF up THEN q + 1 ELSE q) * ulp

\* std::ceil(f / w) in float arithmetic, f an integer-valued float: the exact
\* quotient q + r/w is rounded to a float first, and the ceiling taken of that.
\* The ceiling is q only when the rounded quotient is the integer q itself.
CeilFloatDiv(f, w) ==
  LET q == f \div w
      r == f % w
  IN  IF r = 0 THEN
        \* exact or integer-valued: rounding keeps an integer
        IF q < Pow2(FloatMantissaBits) THEN q ELSE ToFloat(q)
      ELSE IF q = 0 THEN 1
      ELSE IF q >= Pow2(FloatMantissaBits) THEN
        LET ulp  == Pow2(BitLength(q) - FloatMantissaBits)
            m    == q \div ulp
            s    == q % ulp
            half == ulp \div 2
        IN  (IF s >= half THEN m + 1 ELSE m) * ulp
      ELSE
        \* q has BitLength(q) significant bits; the fraction keeps the rest
        LET p2   == 2 * Pow2(FloatMantissaBits - BitLength(q))
            down == \/ r <= (w - 1) \div p2
                    \/ /\ w % p2 = 0
                       /\ r = w \div p2
                       /\ (p2 > 2 \/ q % 2 = 0)
        IN  IF down THEN q ELSE q + 1

\* ----------------------------------------------- RandomOracle's arithmetic

\* context.cc:90
RoOutputBitLength(bits, w) == bits + w

RoIterCountTrunc(L, w) == ToFloat(L) \div w

\* context.cc:91
RoIterCount(L, w) == CeilFloatDiv(ToFloat(L), w)

\* context.cc:92
RoAccepted(k) == k < MaxIter

\* context.cc:95
RoExcessBitCount(k, L, w) == (k * w) - L

\* ------------------------------------------- OpenSSL digests (a stand-in)

\* The digest engine is a black box to context.cc.  It is modelled by a small
\* mixing function of the algorithm and of every byte absorbed, in order, cut
\* to the scaled width and handed back as a fixed number of bytes.
DigestLen == (ScaledBlockBits + BitsPerByte - 1) \div BitsPerByte

Mix(h, b) == ((h * 37 + b * 11 + 23) % 1021) % Pow2(ScaledBlockBits)

RECURSIVE Absorb(_, _)
Absorb(h, s) == IF s = << >> THEN h ELSE Absorb(Mix(h, Head(s)), Tail(s))

AlgSeed(alg) == IF alg = "sha256" THEN 17 ELSE 91

\* EVP_DigestFinal_ex on a state initialised with alg that absorbed buf.
Digest(alg, buf) == FixedBytes(Mix(Absorb(AlgSeed(alg), buf), Len(buf)), DigestLen)

\* HMAC_Final on a state keyed with key that absorbed buf: H(key, H(key, buf)).
Hmac(key, buf) ==
  LET inner == FixedBytes(Absorb(Absorb(53, key), buf), DigestLen)
  IN  FixedBytes(Mix(Absorb(Absorb(29, key), inner), Len(buf)), DigestLen)

\* What a final on a cleansed state hands back is unspecified.  The frame is
\* marked junk, and these values stand for whatever the bytes hold.
JunkDigests == { FixedBytes(0, DigestLen), FixedBytes(Pow2(ScaledBlockBits) - 1, DigestLen) }

\* ------------------------------------------------------------------ inputs

ShortKey == [j \in 1 .. 9 |-> j]
GoodKey == [j \in 1 .. 10 |-> j + 1]

Keys == {ShortKey, GoodKey}
Strings == { << >>, <<1>>, <<2, 1>> }
MaxValues == {0, 1, 3, 6, 200, 300}

\* What two threads pass when they run side by side.
ConcStrings == { << >>, <<1>> }
ConcMaxValues == {255}

\* ------------------------------------------------------------------- state

VARIABLES
  ctx,        \* ctx[c]: the digest and keyed-hash state of Context c
  th,         \* th[t]: the call thread t is in, and where in it
  discipline, \* how the threads use the Contexts
  lock,       \* the mutex around a shared Context: its holder, or 0
  calls,      \* calls[t]: the calls thread t has made, where they are counted
  iter        \* SpecIter: RandomOracle's entry check at the real width

vars == <<ctx, th, discipline, lock, calls, iter>>

\* Context::Context(): EVP_MD_CTX_create() and HMAC_CTX_init(): nothing absorbed.
FreshMd == [alg |-> "none", buf |-> << >>, fin |-> FALSE, junk |-> FALSE]
FreshHmac == [keyed |-> FALSE, key |-> << >>, buf |-> << >>, fin |-> FALSE, junk |-> FALSE]
FreshContext == [md |-> FreshMd, hmac |-> FreshHmac]

IdleFrame ==
  [status |-> "idle", op |-> "none", pc |-> "none", why |-> "none",
   str |-> << >>, key |-> << >>, max |-> 0,
   data |-> << >>, hashBn |-> 0,
   L |-> 0, k |-> 0, excess |-> 0, i |-> 0, acc |-> 0,
   dalg |-> "none", din |-> << >>, dout |-> << >>,
   rand |-> 0, result |-> 0, out |-> << >>,
   touched |-> FALSE, junk |-> FALSE, resampled |-> FALSE, log |-> << >>,
   entryHmac |-> FreshHmac]

IdleIter == [pc |-> "idle", bits |-> 0, L |-> 0, k |-> 0, hashed |-> FALSE]

Threads == DOMAIN th

CtxOfShared(t) == 1

\* The Context thread t calls into: each Context has its own evp_md_ctx_ and
\* hmac_ctx_ (context.cc:36-49).
CtxOf(t) == IF discipline = "perthread" THEN t ELSE 1

\* A fatal CHECK ends the process: no thread takes another step.
Alive == \A t \in Threads : th[t].status # "aborted"

Running(t, pc) == Alive /\ th[t].status = "running" /\ th[t].pc = pc

ArgStrings == IF discipline = "single" THEN Strings ELSE ConcStrings
ArgMaxValues == IF discipline = "single" THEN MaxValues ELSE ConcMaxValues
ArgKeys == IF discipline = "single" THEN Keys ELSE {GoodKey}

Abort(t, why) == th' = [th EXCEPT ![t].status = "aborted", ![t].why = why]

\* A BigNum comes back in result, a byte string in out.
Return(t, value) ==
  th' = [th EXCEPT ![t].status = "returned", ![t].pc = "none", ![t].result = value]

\* ------------------------------------------------------------- call entry

\* Two threads side by side make MaxConcCalls calls each; a single thread
\* calls without end.
MayCall(t) ==
  /\ Alive
  /\ th[t].status = "idle"
  /\ (discipline = "mutex" => lock = t)
  /\ (discipline # "single" => calls[t] < MaxConcCalls)

Counted(t) ==
  calls' = IF discipline = "single" THEN calls ELSE [calls EXCEPT ![t] = @ + 1]

Enter(t, op, pc, str, key, max) ==
  th' = [th EXCEPT ![t] = [IdleFrame EXCEPT
           !.status = "running", !.op = op, !.pc = pc,
           !.str = str, !.key = key, !.max = max, !.data = str,
           !.dalg = IF op = "Sha256String" THEN "sha256" ELSE "sha512",
           !.din = str,
           !.entryHmac = IF op = "PRF" THEN ctx[CtxOf(t)].hmac ELSE FreshHmac]]

CallSha256String(t) ==
  /\ MayCall(t)
  /\ \E bytes \in ArgStrings : Enter(t, "Sha256String", "md_init", bytes, << >>, 0)
  /\ Counted(t)
  /\ UNCHANGED <<ctx, discipline, lock, iter>>

CallSha512String(t) ==
  /\ MayCall(t)
  /\ \E bytes \in ArgStrings : Enter(t, "Sha512String", "md_init", bytes, << >>, 0)
  /\ Counted(t)
  /\ UNCHANGED <<ctx, discipline, lock, iter>>

CallRandomOracle(t) ==
  /\ MayCall(t)
  /\ \E x \in ArgStrings, max \in ArgMaxValues :
       Enter(t, "RandomOracle", "ro_check", x, << >>, max)
  /\ Counted(t)
  /\ UNCHANGED <<ctx, discipline, lock, iter>>

CallPRF(t) ==
  /\ MayCall(t)
  /\ \E key \in ArgKeys, data \in ArgStrings, max \in ArgMaxValues :
       Enter(t, "PRF", "prf_check", data, key, max)
  /\ Counted(t)
  /\ UNCHANGED <<ctx, discipline, lock, iter>>

CallGenerateRandLessThan(t) ==
  /\ MayCall(t)
  /\ \E max \in ArgMaxValues :
       Enter(t, "GenerateRandLessThan", "rand", << >>, << >>, max)
  /\ Counted(t)
  /\ UNCHANGED <<ctx, discipline, lock, iter>>

CallRelativelyPrimeRandomLessThan(t) ==
  /\ MayCall(t)
  /\ \E num \in ArgMaxValues :
       Enter(t, "RelativelyPrimeRandomLessThan", "rand", << >>, << >>, num)
  /\ Counted(t)
  /\ UNCHANGED <<ctx, discipline, lock, iter>>

\* The caller takes the returned value; the thread is free for its next call.
Resume(t) ==
  /\ Alive
  /\ th[t].status = "returned"
  /\ th' = [th EXCEPT ![t] = IdleFrame]
  /\ UNCHANGED <<ctx, discipline, lock, calls, iter>>

\* ----------------------------------------- Sha256String and Sha512String

MdInitKeep(md, alg) == [md EXCEPT !.alg = alg, !.fin = FALSE, !.junk = FALSE]

\* EVP_DigestInit_ex: the state is set to alg's initial value.
MdInit(md, alg) == [alg |-> alg, buf |-> << >>, fin |-> FALSE, junk |-> FALSE]

\* A digest state an update or a final may be applied to.
MdLive(md) == md.alg # "none" /\ ~md.fin /\ ~md.junk

DigestInit(t) ==
  /\ Running(t, "md_init")
  /\ ctx' = [ctx EXCEPT ![CtxOf(t)].md = MdInit(@, th[t].dalg)]
  /\ th' = [th EXCEPT ![t].pc = "md_update", ![t].touched = TRUE]
  /\ UNCHANGED <<discipline, lock, calls, iter>>

DigestUpdate(t) ==
  /\ Running(t, "md_update")
  /\ MdLive(ctx[CtxOf(t)].md)
  /\ ctx' = [ctx EXCEPT ![CtxOf(t)].md.buf = @ \o th[t].din]
  /\ th' = [th EXCEPT ![t].pc = "md_final"]
  /\ UNCHANGED <<discipline, lock, calls, iter>>

\* Where the digest goes: Sha256String and Sha512String return it, and
\* RandomOracle adds it to hash_output.
AfterDigest(t, bytes) ==
  IF th[t].op = "RandomOracle"
  THEN th' = [th EXCEPT ![t].pc = "ro_add", ![t].dout = bytes,
                        ![t].log = Append(@, th[t].din)]
  ELSE th' = [th EXCEPT ![t].status = "returned", ![t].pc = "none",
                        ![t].dout = bytes, ![t].out = bytes]

DigestFinal(t) ==
  /\ Running(t, "md_final")
  /\ MdLive(ctx[CtxOf(t)].md)
  /\ AfterDigest(t, Digest(ctx[CtxOf(t)].md.alg, ctx[CtxOf(t)].md.buf))
  /\ ctx' = [ctx EXCEPT ![CtxOf(t)].md.fin = TRUE]
  /\ UNCHANGED <<discipline, lock, calls, iter>>

AfterJunkDigest(t, bytes) ==
  th' = [th EXCEPT ![t].status = "returned", ![t].pc = "none", ![t].junk = TRUE,
                   ![t].dout = bytes, ![t].out = bytes]

\* Another thread finalised the state this thread initialised: the update runs
\* on a cleansed state.  The library either reports failure (CRYPTO_CHECK
\* aborts) or absorbs into whatever the state holds.
DigestUpdateRaced(t) ==
  /\ Running(t, "md_update")
  /\ ~MdLive(ctx[CtxOf(t)].md)
  /\ \/ /\ Abort(t, "crypto")
        /\ UNCHANGED ctx
     \/ /\ ctx' = [ctx EXCEPT ![CtxOf(t)].md.junk = TRUE]
        /\ th' = [th EXCEPT ![t].pc = "md_final"]
  /\ UNCHANGED <<discipline, lock, calls, iter>>

\* A final on a state another thread already finalised: failure, or the
\* digest of a cleansed state, which may be any value.
DigestFinalRaced(t) ==
  /\ Running(t, "md_final")
  /\ ~MdLive(ctx[CtxOf(t)].md)
  /\ \/ /\ Abort(t, "crypto")
        /\ UNCHANGED ctx
     \/ /\ \E bytes \in JunkDigests : AfterJunkDigest(t, bytes)
        /\ ctx' = [ctx EXCEPT ![CtxOf(t)].md.fin = TRUE]
  /\ UNCHANGED <<discipline, lock, calls, iter>>

\* ------------------------------------------------------------ RandomOracle

\* context.cc:90-96: the bit length, the iteration count and its CHECK.
RoCheck(t) ==
  LET L == RoOutputBitLength(BitLength(th[t].max), ScaledBlockBits)
      k == RoIterCount(L, ScaledBlockBits)
  IN  IF ~RoAccepted(k) THEN Abort(t, "check_domain")
      ELSE th' = [th EXCEPT ![t].L = L, ![t].k = k,
                            ![t].excess = RoExcessBitCount(k, L, ScaledBlockBits),
                            ![t].acc = 0, ![t].i = 1, ![t].pc = "ro_loop"]

RandomOracleCheck(t) ==
  /\ Running(t, "ro_check")
  /\ RoCheck(t)
  /\ UNCHANGED <<ctx, discipline, lock, calls, iter>>

RoHashInputNoCounter(i, x) == x

\* CreateBigNum(i).ToBytes().append(x)
RoHashInput(i, x) == ToBytes(i) \o x

\* context.cc:97-101: one turn of the loop up to the call of Sha512String.
RandomOracleShift(t) ==
  /\ Running(t, "ro_loop")
  /\ th[t].i < th[t].k + 1
  /\ th' = [th EXCEPT ![t].acc = Lshift(@, ScaledBlockBits),
                      ![t].dalg = "sha512",
                      ![t].din = RoHashInput(th[t].i, th[t].str),
                      ![t].pc = "md_init"]
  /\ UNCHANGED <<ctx, discipline, lock, calls, iter>>

\* context.cc:99-101 and the i++ of :97: hash_output + CreateBigNum(digest).
RandomOracleAdd(t) ==
  /\ Running(t, "ro_add")
  /\ th' = [th EXCEPT ![t].acc = @ + FromBytes(th[t].dout),
                      ![t].i = @ + 1,
                      ![t].pc = "ro_loop"]
  /\ UNCHANGED <<ctx, discipline, lock, calls, iter>>

RoReduceNoMod(acc, excess, max) == Rshift(acc, excess)

\* hash_output.Rshift(excess_bit_count).Mod(max_value)
RoReduce(acc, excess, max) == Mod(Rshift(acc, excess), max)

\* context.cc:103.  BigNum::Mod is fatal on a zero modulus.
RandomOracleFinish(t) ==
  /\ Running(t, "ro_loop")
  /\ ~(th[t].i < th[t].k + 1)
  /\ IF th[t].max = 0 THEN Abort(t, "crypto")
     ELSE Return(t, RoReduce(th[t].acc, th[t].excess, th[t].max))
  /\ UNCHANGED <<ctx, discipline, lock, calls, iter>>

\* --------------------------------------------------------------------- PRF

PrfKeyOk(key) == Len(key) * BitsPerByte >= MinKeyBits

PrfDomainOk(max) == BitLength(max) <= ScaledBlockBits

PrfCheckKeyOnly(t) ==
  IF ~PrfKeyOk(th[t].key) THEN Abort(t, "check_key")
  ELSE th' = [th EXCEPT ![t].pc = "hmac_init"]

\* context.cc:108-112: CHECK_GE on the key, CHECK_LE on the bit length.
PrfCheck(t) ==
  IF ~PrfKeyOk(th[t].key) THEN Abort(t, "check_key")
  ELSE IF ~PrfDomainOk(th[t].max) THEN Abort(t, "check_domain")
  ELSE th' = [th EXCEPT ![t].pc = "hmac_init"]

PRFCheck(t) ==
  /\ Running(t, "prf_check")
  /\ PrfCheck(t)
  /\ UNCHANGED <<ctx, discipline, lock, calls, iter>>

HmacLive(h) == h.keyed /\ ~h.fin /\ ~h.junk

\* HMAC_Init_ex with a key: the state is keyed afresh.
HmacInit(h, key) == [keyed |-> TRUE, key |-> key, buf |-> << >>, fin |-> FALSE, junk |-> FALSE]

\* context.cc:113-114
PRFHmacInit(t) ==
  /\ Running(t, "hmac_init")
  /\ ctx' = [ctx EXCEPT ![CtxOf(t)].hmac = HmacInit(@, th[t].key)]
  /\ th' = [th EXCEPT ![t].pc = "hmac_update", ![t].touched = TRUE]
  /\ UNCHANGED <<discipline, lock, calls, iter>>

\* context.cc:115-118
PRFHmacUpdate(t) ==
  /\ Running(t, "hmac_update")
  /\ HmacLive(ctx[CtxOf(t)].hmac)
  /\ ctx' = [ctx EXCEPT ![CtxOf(t)].hmac.buf = @ \o th[t].data]
  /\ th' = [th EXCEPT ![t].pc = "hmac_final"]
  /\ UNCHANGED <<discipline, lock, calls, iter>>

\* context.cc:121-122: HMAC_Final, and the BigNum of its bytes.
PRFHmacFinal(t) ==
  /\ Running(t, "hmac_final")
  /\ HmacLive(ctx[CtxOf(t)].hmac)
  /\ th' = [th EXCEPT ![t].hashBn = FromBytes(Hmac(ctx[CtxOf(t)].hmac.key,
                                                   ctx[CtxOf(t)].hmac.buf)),
                      ![t].pc = "prf_compare"]
  /\ ctx' = [ctx EXCEPT ![CtxOf(t)].hmac.fin = TRUE]
  /\ UNCHANGED <<discipline, lock, calls, iter>>

\* The keyed-hash steps on a state another thread finalised.
PRFHmacUpdateRaced(t) ==
  /\ Running(t, "hmac_update")
  /\ ~HmacLive(ctx[CtxOf(t)].hmac)
  /\ \/ /\ Abort(t, "crypto")
        /\ UNCHANGED ctx
     \/ /\ ctx' = [ctx EXCEPT ![CtxOf(t)].hmac.junk = TRUE]
        /\ th' = [th EXCEPT ![t].pc = "hmac_final"]
  /\ UNCHANGED <<discipline, lock, calls, iter>>

PRFHmacFinalRaced(t) ==
  /\ Running(t, "hmac_final")
  /\ ~HmacLive(ctx[CtxOf(t)].hmac)
  /\ \/ /\ Abort(t, "crypto")
        /\ UNCHANGED ctx
     \/ /\ \E bytes \in JunkDigests :
             th' = [th EXCEPT ![t].hashBn = FromBytes(bytes), ![t].junk = TRUE,
                              ![t].pc = "prf_compare"]
        /\ ctx' = [ctx EXCEPT ![CtxOf(t)].hmac.fin = TRUE]
  /\ UNCHANGED <<discipline, lock, calls, iter>>

\* hash_bn.GetLastNBits(max_value.BitLength())
PrfCandidate(hashBn, max) == GetLastNBits(hashBn, BitLength(max))

PrfAcceptsAtMost(candidate, max) == candidate <= max

\* context.cc:124
PrfAccepts(candidate, max) == candidate < max

\* context.cc:124-125
PRFAccept(t) ==
  /\ Running(t, "prf_compare")
  /\ PrfAccepts(PrfCandidate(th[t].hashBn, th[t].max), th[t].max)
  /\ Return(t, PrfCandidate(th[t].hashBn, th[t].max))
  /\ UNCHANGED <<ctx, discipline, lock, calls, iter>>

\* context.cc:126-127: PRF(key, hash_bn.ToBytes(), max_value), from its top.
PRFRecurse(t) ==
  /\ Running(t, "prf_compare")
  /\ ~PrfAccepts(PrfCandidate(th[t].hashBn, th[t].max), th[t].max)
  /\ th' = [th EXCEPT ![t].data = ToBytes(th[t].hashBn), ![t].pc = "prf_check"]
  /\ UNCHANGED <<ctx, discipline, lock, calls, iter>>

\* ------------------- GenerateRandLessThan, RelativelyPrimeRandomLessThan

\* context.cc:145-149: BN_rand_range fails on a zero range (CRYPTO_CHECK),
\* and draws from [0, max_value) otherwise.
GenerateRandLessThan(t) ==
  /\ Running(t, "rand")
  /\ IF th[t].max = 0 THEN Abort(t, "crypto")
     ELSE \E r \in 0 .. th[t].max - 1 :
            IF th[t].op = "GenerateRandLessThan"
            THEN th' = [th EXCEPT ![t].status = "returned", ![t].pc = "none",
                                  ![t].rand = r, ![t].result = r, ![t].touched = TRUE]
            ELSE th' = [th EXCEPT ![t].rand = r, ![t].pc = "rp_test",
                                  ![t].touched = TRUE]
  /\ UNCHANGED <<ctx, discipline, lock, calls, iter>>

RpRejectsNever(r, num) == FALSE

\* context.cc:166: rand_num.Gcd(num) > One()
RpRejects(r, num) == Gcd(r, num) > 1

\* context.cc:166-167: the loop turns and draws again.
RelativelyPrimeResample(t) ==
  /\ Running(t, "rp_test")
  /\ RpRejects(th[t].rand, th[t].max)
  /\ th' = [th EXCEPT ![t].pc = "rand", ![t].resampled = TRUE]
  /\ UNCHANGED <<ctx, discipline, lock, calls, iter>>

\* context.cc:169
RelativelyPrimeReturn(t) ==
  /\ Running(t, "rp_test")
  /\ ~RpRejects(th[t].rand, th[t].max)
  /\ Return(t, th[t].rand)
  /\ UNCHANGED <<ctx, discipline, lock, calls, iter>>

\* ------------------------------------------------- the caller's discipline

AcquireAlways(t) ==
  /\ Alive
  /\ discipline = "mutex"
  /\ th[t].status = "idle"
  /\ lock # t
  /\ lock' = t
  /\ UNCHANGED <<ctx, th, discipline, calls, iter>>

\* Mutual exclusion around every call on the shared Context.
Acquire(t) ==
  /\ Alive
  /\ discipline = "mutex"
  /\ th[t].status = "idle"
  /\ lock = 0
  /\ lock' = t
  /\ UNCHANGED <<ctx, th, discipline, calls, iter>>

Release(t) ==
  /\ Alive
  /\ lock = t
  /\ th[t].status = "idle"
  /\ lock' = 0
  /\ UNCHANGED <<ctx, th, discipline, calls, iter>>

\* ----------------------------------------------------------- specifications

\* One thread, one Context, one call at a time.
Init ==
  /\ discipline = "single"
  /\ ctx = [c \in {1} |-> FreshContext]
  /\ th = [t \in {1} |-> IdleFrame]
  /\ lock = 0
  /\ calls = [t \in {1} |-> 0]
  /\ iter = IdleIter

Next ==
  \E t \in {1} :
    \/ CallSha256String(t)
    \/ CallSha512String(t)
    \/ CallRandomOracle(t)
    \/ CallPRF(t)
    \/ CallGenerateRandLessThan(t)
    \/ CallRelativelyPrimeRandomLessThan(t)
    \/ Resume(t)
    \/ DigestInit(t)
    \/ DigestUpdate(t)
    \/ DigestFinal(t)
    \/ RandomOracleCheck(t)
    \/ RandomOracleShift(t)
    \/ RandomOracleAdd(t)
    \/ RandomOracleFinish(t)
    \/ PRFCheck(t)
    \/ PRFHmacInit(t)
    \/ PRFHmacUpdate(t)
    \/ PRFHmacFinal(t)
    \/ PRFAccept(t)
    \/ PRFRecurse(t)
    \/ GenerateRandLessThan(t)
    \/ RelativelyPrimeResample(t)
    \/ RelativelyPrimeReturn(t)

Spec == Init /\ [][Next]_vars

\* The PRF calls of the single thread alone.  Every call runs to completion:
\* no step of it waits on anything, so a step that can be taken is taken.
NextPRF ==
  \E t \in {1} :
    \/ CallPRF(t)
    \/ Resume(t)
    \/ PRFCheck(t)
    \/ PRFHmacInit(t)
    \/ PRFHmacUpdate(t)
    \/ PRFHmacFinal(t)
    \/ PRFAccept(t)
    \/ PRFRecurse(t)

SpecPRFLive == Init /\ [][NextPRF]_vars /\ WF_vars(NextPRF)

\* Two threads, under one of three disciplines: one shared Context without
\* synchronisation, one shared Context under a mutex, one Context per thread.
InitConc ==
  /\ discipline \in {"shared", "mutex", "perthread"}
  /\ ctx = [c \in (IF discipline = "perthread" THEN {1, 2} ELSE {1}) |-> FreshContext]
  /\ th = [t \in {1, 2} |-> IdleFrame]
  /\ lock = 0
  /\ calls = [t \in {1, 2} |-> 0]
  /\ iter = IdleIter

NextConc ==
  \E t \in {1, 2} :
    \/ Acquire(t)
    \/ Release(t)
    \/ CallSha256String(t)
    \/ CallSha512String(t)
    \/ CallPRF(t)
    \/ Resume(t)
    \/ DigestInit(t)
    \/ DigestUpdate(t)
    \/ DigestFinal(t)
    \/ DigestUpdateRaced(t)
    \/ DigestFinalRaced(t)
    \/ PRFCheck(t)
    \/ PRFHmacInit(t)
    \/ PRFHmacUpdate(t)
    \/ PRFHmacFinal(t)
    \/ PRFHmacUpdateRaced(t)
    \/ PRFHmacFinalRaced(t)
    \/ PRFAccept(t)
    \/ PRFRecurse(t)

SpecConc == InitConc /\ [][NextConc]_vars

\* RandomOracle's entry (context.cc:90-95) at the real width of 512 bits,
\* on the bit length of max_value alone.
IterBitLengths ==
  LET edge  == ((MaxIter - 1) * Sha512Bits) - Sha512Bits
      round == Pow2(FloatMantissaBits) - Sha512Bits
  IN  (0 .. (edge + EdgeWindow))
        \cup ((round - EdgeWindow) .. (round + EdgeWindow))

InitIter ==
  /\ discipline = "single"
  /\ ctx = [c \in {1} |-> FreshContext]
  /\ th = [t \in {1} |-> IdleFrame]
  /\ lock = 0
  /\ calls = [t \in {1} |-> 0]
  /\ iter \in { [IdleIter EXCEPT !.pc = "ro_check", !.bits = b] : b \in IterBitLengths }

\* context.cc:90-95
IterCheck ==
  /\ iter.pc = "ro_check"
  /\ LET L == RoOutputBitLength(iter.bits, Sha512Bits)
         k == RoIterCount(L, Sha512Bits)
     IN  iter' = [iter EXCEPT !.L = L, !.k = k,
                              !.pc = IF RoAccepted(k) THEN "ro_loop" ELSE "aborted"]
  /\ UNCHANGED <<ctx, th, discipline, lock, calls>>

\* context.cc:97-101: the first turn of the loop hashes.
IterHash ==
  /\ iter.pc = "ro_loop"
  /\ 1 < iter.k + 1
  /\ iter' = [iter EXCEPT !.pc = "md_init", !.hashed = TRUE]
  /\ UNCHANGED <<ctx, th, discipline, lock, calls>>

NextIter == IterCheck \/ IterHash

SpecIter == InitIter /\ [][NextIter]_vars

\* ------------------------------------------------------------------ claims

\* What a call computes on a Context nothing else touches.

RECURSIVE RoConcat(_, _, _)
\* The digests of (byte i) || x for i = 1 .. k, the first one most significant.
RoConcat(x, k, w) ==
  IF k = 0 THEN 0
  ELSE RoConcat(x, k - 1, w) * Pow2(w) + FromBytes(Digest("sha512", <<k>> \o x))

ExactCeilDiv(a, b) == (a + b - 1) \div b

RoValue(x, max, w) ==
  LET L == BitLength(max) + w
      k == ExactCeilDiv(L, w)
  IN  (RoConcat(x, k, w) \div Pow2(k * w - L)) % max

RECURSIVE PrfValue(_, _, _)
PrfValue(key, data, max) ==
  LET h == FromBytes(Hmac(key, data))
      c == h % Pow2(BitLength(max))
  IN  IF c < max THEN c ELSE PrfValue(key, ToBytes(h), max)

OwnResult(f) ==
  CASE f.op = "Sha256String" -> f.out = Digest("sha256", f.str)
    [] f.op = "Sha512String" -> f.out = Digest("sha512", f.str)
    [] f.op = "RandomOracle" -> f.result = RoValue(f.str, f.max, ScaledBlockBits)
    [] f.op = "PRF" -> f.result = PrfValue(f.key, f.str, f.max)
    [] OTHER -> TRUE

Returned(t, op) == th[t].status = "returned" /\ th[t].op = op

\* C1: RandomOracle(x, max_value) with max_value > 0 and an accepted iteration
\* count returns r with 0 <= r < max_value.
C1_RandomOracleInRange ==
  \A t \in Threads :
    (Returned(t, "RandomOracle") /\ th[t].max > 0)
      => /\ th[t].k < MaxIter
         /\ 0 <= th[t].result
         /\ th[t].result < th[t].max

C1_Witness ==
  \E t \in Threads :
    /\ Returned(t, "RandomOracle")
    /\ th[t].max = 3
    /\ th[t].result = 2
    /\ Rshift(th[t].acc, th[t].excess) >= th[t].max

\* C2: with a key of 10 bytes or more and bitlength(max_value) within the
\* digest width, PRF returns only the candidate (the low bitlength(max_value)
\* bits of the keyed hash) and only when it is below max_value.
C2_PRFInRange ==
  \A t \in Threads :
    (Returned(t, "PRF") /\ PrfKeyOk(th[t].key) /\ PrfDomainOk(th[t].max))
      => /\ th[t].result = GetLastNBits(th[t].hashBn, BitLength(th[t].max))
         /\ 0 <= th[t].result
         /\ th[t].result < th[t].max

C2_Witness ==
  \E t \in Threads :
    /\ Returned(t, "PRF")
    /\ th[t].max = 3
    /\ th[t].data # th[t].str
    /\ th[t].result < th[t].hashBn

\* C3: PRF aborts on a key under 10 bytes or a max_value wider than the
\* digest, before any HMAC step and with the keyed-hash state as it was at
\* entry; with both preconditions met neither check aborts.
C3_PRFPreconditions ==
  \A t \in Threads :
    th[t].op = "PRF" =>
      IF PrfKeyOk(th[t].key) /\ PrfDomainOk(th[t].max)
      THEN th[t].why \notin {"check_key", "check_domain"}
      ELSE /\ ~th[t].touched
           /\ ctx[CtxOf(t)].hmac = th[t].entryHmac
           /\ \/ th[t].status = "running" /\ th[t].pc = "prf_check"
              \/ /\ th[t].status = "aborted"
                 /\ th[t].why = (IF PrfKeyOk(th[t].key) THEN "check_domain"
                                 ELSE "check_key")

C3_Witness ==
  \E t \in Threads :
    /\ th[t].op = "PRF"
    /\ th[t].status = "aborted"
    /\ th[t].why = "check_domain"
    /\ th[t].entryHmac.keyed
    /\ th[t].entryHmac.buf # << >>

ModulusOps ==
  {"RandomOracle", "PRF", "GenerateRandLessThan", "RelativelyPrimeRandomLessThan"}

\* C4: every operation that takes a modulus aborts on a zero modulus before
\* any digest, HMAC or random-generation step: a call with a zero modulus
\* never gets to such a step, and once it has left its entry it has aborted.
C4_ZeroModulusAbortsFirst ==
  \A t \in Threads :
    (th[t].op \in ModulusOps /\ th[t].max = 0)
      => /\ ~th[t].touched
         /\ th[t].status \in {"running", "aborted"}
         /\ (th[t].status = "running" => th[t].pc \in {"ro_check", "prf_check", "rand"})

\* C6: for n > 1 RelativelyPrimeRandomLessThan(n) returns r with 0 <= r < n and
\* gcd(r, n) = 1, and a candidate that shares a factor with n (0 included) is
\* never the one returned.
C6_RelativelyPrime ==
  \A t \in Threads :
    (Returned(t, "RelativelyPrimeRandomLessThan") /\ th[t].max > 1)
      => /\ 0 <= th[t].result
         /\ th[t].result < th[t].max
         /\ th[t].result = th[t].rand
         /\ th[t].result # 0
         /\ Gcd(th[t].result, th[t].max) = 1

C6_Witness ==
  \E t \in Threads :
    /\ Returned(t, "RelativelyPrimeRandomLessThan")
    /\ th[t].max = 6
    /\ th[t].resampled
    /\ th[t].result = 5

\* C7: calls made one at a time on one Context leave nothing behind for the
\* next: after its init step a call finds the digest (keyed-hash) state empty
\* and set to its own algorithm (key), and what it returns is what the same
\* call returns on a Context nothing else has used.
C7_NoResidualState ==
  \A t \in Threads :
    /\ Running(t, "md_update") =>
         ctx[CtxOf(t)].md = [FreshMd EXCEPT !.alg = th[t].dalg]
    /\ Running(t, "hmac_update") =>
         ctx[CtxOf(t)].hmac = [FreshHmac EXCEPT !.keyed = TRUE, !.key = th[t].key]
    /\ (th[t].status = "returned" /\ (th[t].op = "RandomOracle" => th[t].max > 0))
         => OwnResult(th[t])

C7_Witness ==
  \E t \in Threads :
    /\ Returned(t, "Sha256String")
    /\ th[t].str = <<1>>
    /\ ctx[CtxOf(t)].hmac.keyed
    /\ ctx[CtxOf(t)].hmac.buf # << >>

\* C9: an accepted RandomOracle(x, max_value) hashes exactly k = ceil(L/w)
\* times, on (byte i) || x for i = 1 .. k in this order with a one-byte
\* counter, and returns the k blocks, first one most significant, shifted right
\* by k*w - L bits and reduced modulo max_value.
C9_RandomOracleConstruction ==
  \A t \in Threads :
    /\ (th[t].op = "RandomOracle" /\ th[t].pc \in {"ro_loop", "md_init"})
         => Len(th[t].log) = th[t].i - 1
    /\ (Returned(t, "RandomOracle") /\ th[t].max > 0)
         => /\ th[t].L = BitLength(th[t].max) + ScaledBlockBits
            /\ th[t].k = ExactCeilDiv(th[t].L, ScaledBlockBits)
            /\ th[t].log = [j \in 1 .. th[t].k |-> <<j>> \o th[t].str]
            /\ \A j \in 1 .. (MaxIter - 1) : Len(ToBytes(j)) = 1
            /\ th[t].acc = RoConcat(th[t].str, th[t].k, ScaledBlockBits)
            /\ th[t].acc < Pow2(th[t].k * ScaledBlockBits)
            /\ th[t].excess = th[t].k * ScaledBlockBits - th[t].L
            /\ Rshift(th[t].acc, th[t].excess) < Pow2(th[t].L)
            /\ th[t].result = Rshift(th[t].acc, th[t].excess) % th[t].max

C9_Witness ==
  \E t \in Threads :
    /\ Returned(t, "RandomOracle")
    /\ th[t].max = 300
    /\ th[t].k = 3
    /\ th[t].excess > 0
    /\ Len(th[t].log) = 3

\* The single thread is in a PRF call whose arguments pass both checks.
PrfPending ==
  /\ th[1].op = "PRF"
  /\ th[1].status = "running"
  /\ PrfKeyOk(th[1].key)
  /\ PrfDomainOk(th[1].max)

PrfReturned == th[1].status = "returned"

\* C10: with a key of 10 bytes or more and bitlength(max_value) within the
\* digest width, the PRF recursion terminates: the call returns.
C10_PRFTerminates == PrfPending ~> PrfReturned

PrfPendingPositive == PrfPending /\ th[1].max > 0

\* The stand-in keyed hash rejects for ever on no positive max_value of the
\* model: every PRF call with max_value > 0 that passes the checks returns.
PRFPositiveTerminates == PrfPendingPositive ~> PrfReturned

\* C8: with one Context per thread, or a mutex around every call on a shared
\* Context, every call returns what it returns on its own; a call that returns
\* anything else, or that meets a finalised state, is on a Context shared
\* without synchronisation.
C8_DisciplineIsolates ==
  \A t \in Threads :
    discipline \in {"mutex", "perthread"} =>
      /\ th[t].status # "aborted"
      /\ ~th[t].junk
      /\ th[t].status = "returned" => OwnResult(th[t])
      /\ Running(t, "md_update") => MdLive(ctx[CtxOf(t)].md)
      /\ Running(t, "md_final") => MdLive(ctx[CtxOf(t)].md)

\* Two threads on one shared Context: a Sha512String call that ran no step on
\* a finalised state returns a value that is not the digest of its input.
C8_Witness ==
  \E t \in Threads :
    /\ discipline = "shared"
    /\ Returned(t, "Sha512String")
    /\ ~th[t].junk
    /\ th[t].out # Digest("sha512", th[t].str)

LimitBits == 130048

\* C5: with L = bitlength(max_value) + 512 and k the float ceiling of L/512,
\* RandomOracle aborts exactly when k >= 255, which is exactly when
\* L > 130048; it has hashed nothing when it aborts; and for L <= 130048 the
\* float ceiling is the exact ceil(L/512).
C5_IterationLimit ==
  iter.pc \notin {"idle", "ro_check"} =>
    /\ iter.L = iter.bits + Sha512Bits
    /\ (iter.pc = "aborted") <=> (iter.k >= MaxIter)
    /\ (iter.k >= MaxIter) <=> (iter.L > LimitBits)
    /\ iter.pc = "aborted" => ~iter.hashed
    /\ iter.L <= LimitBits => iter.k = ExactCeilDiv(iter.L, Sha512Bits)

C5_Witness ==
  /\ iter.pc = "aborted"
  /\ iter.L = LimitBits + 1
  /\ iter.k = MaxIter

====
